---------------------------- MODULE Spec2Model ----------------------------
(***************************************************************************)
(* A model of trilat.py: main() reads a comma separated file line by line, *)
(* trilaterates every row in an Earth-centred frame and writes one tab     *)
(* separated row per input row.                                            *)
(*                                                                         *)
(* Python floats (IEEE doubles) are modelled as decimal floating point     *)
(* numbers with a Prec-digit mantissa: a value is NaN, +Inf, -Inf or       *)
(* s * m * 10^e with m = 0 or 10^(Prec-1) <= m < 10^Prec.  Every operation *)
(* rounds to Prec digits, overflows to Inf above the largest double and    *)
(* underflows to zero below the smallest one.  Signed zeros are not kept.  *)
(* A Python exception raised inside an expression is the value Raised,     *)
(* which every later operation of the statement propagates.                *)
(*                                                                         *)
(* The script is Python 2 (file.close, csv on a file opened "wb"); numpy   *)
(* arithmetic warns and answers inf or nan where Python floats would raise.*)
(***************************************************************************)
EXTENDS Integers, Sequences, FiniteSets, TLC

\* ------------------------------------------------------------------ floats

\* mantissa digits of the float model
Prec == 4
\* decimal exponent of the largest double, 1.797e308
DblMaxExp10 == 308
\* leading Prec digits of the largest double
DblMaxMant == 1797
\* decimal exponent of the smallest positive double, 4.94e-324
DblMinExp10 == -324

Pow10(k) ==
  CASE k = 0 -> 1 [] k = 1 -> 10 [] k = 2 -> 100 [] k = 3 -> 1000
    [] k = 4 -> 10000 [] k = 5 -> 100000 [] k = 6 -> 1000000
    [] k = 7 -> 10000000 [] k = 8 -> 100000000 [] k = 9 -> 1000000000

NDigits(m) ==
  IF m < 10 THEN 1 ELSE IF m < 100 THEN 2 ELSE IF m < 1000 THEN 3
  ELSE IF m < 10000 THEN 4 ELSE IF m < 100000 THEN 5 ELSE IF m < 1000000 THEN 6
  ELSE IF m < 10000000 THEN 7 ELSE IF m < 100000000 THEN 8
  ELSE IF m < 1000000000 THEN 9 ELSE 10

NaN == [k |-> "nan", s |-> 1, m |-> 0, e |-> 0]
Inf(s) == [k |-> "inf", s |-> s, m |-> 0, e |-> 0]
Zero == [k |-> "fin", s |-> 1, m |-> 0, e |-> 0]
\* an exception raised while the expression was evaluated
Raised == [k |-> "raised", s |-> 1, m |-> 0, e |-> 0]

\* a name not yet bound, a field that holds no float
Unset == [k |-> "unset", s |-> 1, m |-> 0, e |-> 0]
UnsetV == <<Unset, Unset, Unset>>

IsNaN(a) == a.k = "nan"
IsInf(a) == a.k = "inf"
IsFin(a) == a.k = "fin"
IsRaised(a) == a.k = "raised"
IsZero(a) == a.k = "fin" /\ a.m = 0

\* the double range: overflow to Inf, underflow to zero
Range(s, m, e) ==
  IF e > DblMaxExp10 - (Prec - 1)
     \/ (e = DblMaxExp10 - (Prec - 1) /\ m > DblMaxMant) THEN Inf(s)
  ELSE IF e < DblMinExp10 - (Prec - 1) THEN Zero
  ELSE [k |-> "fin", s |-> s, m |-> m, e |-> e]

\* s * m * 10^e rounded to Prec digits (half away from zero), 0 <= m <= 10^9
Norm(s, m, e) ==
  IF m = 0 THEN Zero
  ELSE LET n == NDigits(m) IN
    IF n > Prec
    THEN LET k == n - Prec
             q == (m + Pow10(k) \div 2) \div Pow10(k)
         IN IF q = Pow10(Prec) THEN Range(s, Pow10(Prec - 1), e + k + 1)
            ELSE Range(s, q, e + k)
    ELSE Range(s, m * Pow10(Prec - n), e - (Prec - n))

\* an integer literal of the program as a float, |n| <= 10^9
FromInt(n) == IF n < 0 THEN Norm(-1, -n, 0) ELSE Norm(1, n, 0)

Neg(a) == IF a.k \in {"nan", "raised"} \/ IsZero(a) THEN a ELSE [a EXCEPT !.s = -a.s]

\* a * b (Python float and numpy.float64: overflow gives inf, never raises)
Mul(a, b) ==
  IF IsRaised(a) \/ IsRaised(b) THEN Raised
  ELSE IF IsNaN(a) \/ IsNaN(b) THEN NaN
  ELSE IF IsInf(a) \/ IsInf(b)
       THEN IF IsZero(a) \/ IsZero(b) THEN NaN ELSE Inf(a.s * b.s)
  ELSE Norm(a.s * b.s, a.m * b.m, a.e + b.e)

\* a + b of two finite values
AddFin(a, b) ==
  IF a.m = 0 THEN b
  ELSE IF b.m = 0 THEN a
  ELSE LET hi == IF a.e >= b.e THEN a ELSE b
           lo == IF a.e >= b.e THEN b ELSE a
           sh == hi.e - lo.e
       IN IF sh > Prec THEN hi
          ELSE LET v == hi.s * hi.m * Pow10(sh) + lo.s * lo.m
               IN IF v < 0 THEN Norm(-1, -v, lo.e) ELSE Norm(1, v, lo.e)

Add(a, b) ==
  IF IsRaised(a) \/ IsRaised(b) THEN Raised
  ELSE IF IsNaN(a) \/ IsNaN(b) THEN NaN
  ELSE IF IsInf(a) THEN (IF IsInf(b) /\ b.s # a.s THEN NaN ELSE a)
  ELSE IF IsInf(b) THEN b
  ELSE AddFin(a, b)

Sub(a, b) == Add(a, Neg(b))

\* Div with a guard that answers 0 for a zero divisor
DivGuarded(a, b) ==
  IF IsRaised(a) \/ IsRaised(b) THEN Raised
  ELSE IF IsNaN(a) \/ IsNaN(b) THEN NaN
  ELSE IF IsInf(a) THEN (IF IsInf(b) THEN NaN ELSE Inf(a.s * b.s))
  ELSE IF IsInf(b) THEN Zero
  ELSE IF b.m = 0 THEN Zero
  ELSE Norm(a.s * b.s, (a.m * Pow10(Prec + 1)) \div b.m, a.e - b.e - (Prec + 1))

\* a / b with numpy semantics: x/0 is inf or nan (a warning), never raises
Div(a, b) ==
  IF IsRaised(a) \/ IsRaised(b) THEN Raised
  ELSE IF IsNaN(a) \/ IsNaN(b) THEN NaN
  ELSE IF IsInf(a) THEN (IF IsInf(b) THEN NaN ELSE Inf(a.s * b.s))
  ELSE IF IsInf(b) THEN Zero
  ELSE IF b.m = 0 THEN (IF a.m = 0 THEN NaN ELSE Inf(a.s * b.s))
  ELSE Norm(a.s * b.s, (a.m * Pow10(Prec + 1)) \div b.m, a.e - b.e - (Prec + 1))

RECURSIVE ISqrtFrom(_, _, _)
\* the largest r in lo..hi with r*r <= n
ISqrtFrom(n, lo, hi) ==
  IF lo >= hi THEN lo
  ELSE LET mid == (lo + hi + 1) \div 2
       IN IF mid * mid <= n THEN ISqrtFrom(n, mid, hi) ELSE ISqrtFrom(n, lo, mid - 1)

ISqrt(n) == ISqrtFrom(n, 0, 40000)

\* math.sqrt: ValueError (math domain error) below zero
MathSqrt(a) ==
  IF IsRaised(a) THEN Raised
  ELSE IF IsNaN(a) THEN NaN
  ELSE IF IsInf(a) THEN (IF a.s = 1 THEN a ELSE Raised)
  ELSE IF a.m = 0 THEN Zero
  ELSE IF a.s = -1 THEN Raised
  ELSE LET odd == a.e % 2 # 0
           mm == IF odd THEN a.m * Pow10(Prec + 1) ELSE a.m * Pow10(Prec)
           ee == IF odd THEN a.e - (Prec + 1) ELSE a.e - Prec
       IN Norm(1, ISqrt(mm), ee \div 2)

\* math.pow(a, 2): OverflowError (math range error) when a finite square overflows
MathPow2(a) ==
  IF IsRaised(a) THEN Raised
  ELSE IF IsFin(a) /\ IsInf(Mul(a, a)) THEN Raised
  ELSE Mul(a, a)

\* math.cos(math.radians(a)) and math.sin(math.radians(a)) for a finite angle
\* of whole degrees, a multiple of 30 in -180..180: the doubles Python
\* returns, to Prec digits.  ValueError for an infinite angle, nan for nan.
\* the whole degrees of a finite angle below 10^4 in size
ToDegrees(a) ==
  IF a.m = 0 THEN 0
  ELSE IF a.e < 0 THEN a.s * (a.m \div Pow10(-a.e))
  ELSE a.s * (a.m * Pow10(a.e))

CosTable(g) ==
  CASE g = 0 -> Norm(1, 1, 0)
    [] g \in {30, -30} -> Norm(1, 8660, -4)
    [] g \in {60, -60} -> Norm(1, 5000, -4)
    [] g \in {90, -90} -> Norm(1, 6123, -20)
    [] g \in {120, -120} -> Norm(-1, 5000, -4)
    [] g \in {150, -150} -> Norm(-1, 8660, -4)
    [] g \in {180, -180} -> Norm(-1, 1, 0)

SinTable(g) ==
  CASE g = 0 -> Zero
    [] g \in {30, 150} -> Norm(1, 5000, -4)
    [] g \in {60, 120} -> Norm(1, 8660, -4)
    [] g = 90 -> Norm(1, 1, 0)
    [] g = 180 -> Norm(1, 1225, -19)
    [] g \in {-30, -150} -> Norm(-1, 5000, -4)
    [] g \in {-60, -120} -> Norm(-1, 8660, -4)
    [] g = -90 -> Norm(-1, 1, 0)
    [] g = -180 -> Norm(-1, 1225, -19)

CosDeg(a) ==
  IF IsRaised(a) \/ IsInf(a) THEN Raised
  ELSE IF IsNaN(a) THEN NaN
  ELSE CosTable(ToDegrees(a))

SinDeg(a) ==
  IF IsRaised(a) \/ IsInf(a) THEN Raised
  ELSE IF IsNaN(a) THEN NaN
  ELSE SinTable(ToDegrees(a))

\* ------------------------------------------------------------------ text

\* a text is a sequence of one-character strings
Whitespace == {" ", "\t", "\n", "\r"}
DigitChars == {"0", "1", "2", "3", "4", "5", "6", "7", "8", "9"}

DigitVal(c) ==
  CASE c = "0" -> 0 [] c = "1" -> 1 [] c = "2" -> 2 [] c = "3" -> 3 [] c = "4" -> 4
    [] c = "5" -> 5 [] c = "6" -> 6 [] c = "7" -> 7 [] c = "8" -> 8 [] c = "9" -> 9

RECURSIVE LStrip(_)
LStrip(t) == IF t # <<>> /\ Head(t) \in Whitespace THEN LStrip(Tail(t)) ELSE t

RECURSIVE RStrip(_)
RStrip(t) ==
  IF t # <<>> /\ t[Len(t)] \in Whitespace THEN RStrip(SubSeq(t, 1, Len(t) - 1)) ELSE t

\* str.strip(): whitespace off both ends
Strip(t) == RStrip(LStrip(t))

\* the first position of character c in t, 0 when absent
RECURSIVE IndexFrom(_, _, _)
IndexFrom(t, c, i) ==
  IF i > Len(t) THEN 0 ELSE IF t[i] = c THEN i ELSE IndexFrom(t, c, i + 1)

\* str.split(c): the fields between the separators, at least one
RECURSIVE Split(_, _)
Split(t, c) ==
  LET i == IndexFrom(t, c, 1)
  IN IF i = 0 THEN <<t>>
     ELSE <<SubSeq(t, 1, i - 1)>> \o Split(SubSeq(t, i + 1, Len(t)), c)

AllDigits(t) == \A i \in 1..Len(t) : t[i] \in DigitChars

RECURSIVE DropZeros(_)
DropZeros(t) == IF t # <<>> /\ Head(t) = "0" THEN DropZeros(Tail(t)) ELSE t

\* the number a digit string spells, capped at 10^4
RECURSIVE ToNat(_, _)
ToNat(t, acc) ==
  IF t = <<>> THEN acc
  ELSE IF acc >= 10000 THEN 10000
  ELSE ToNat(Tail(t), 10 * acc + DigitVal(Head(t)))

\* the digits ds times 10^e, from the leading Prec + 1 digits
DigitsValue(s, ds, e) ==
  LET d == DropZeros(ds)
      n == Len(d)
      k == IF n > Prec + 1 THEN Prec + 1 ELSE n
  IN IF n = 0 THEN Zero ELSE Norm(s, ToNat(SubSeq(d, 1, k), 0), e + (n - k))

\* the exponent part of a float literal: [sign] digits, or Raised
ParseExp(t) ==
  LET neg == t # <<>> /\ Head(t) = "-"
      ds == IF t # <<>> /\ Head(t) \in {"+", "-"} THEN Tail(t) ELSE t
  IN IF ds = <<>> \/ ~AllDigits(ds) THEN [ok |-> FALSE, v |-> 0]
     ELSE [ok |-> TRUE, v |-> IF neg THEN -ToNat(ds, 0) ELSE ToNat(ds, 0)]

\* float(t): surrounding whitespace ignored; [sign] nan | inf | infinity |
\* digits[.digits][e[sign]digits]; ValueError for anything else
ParseFloat(t) ==
  LET u == Strip(t)
      s == IF u # <<>> /\ Head(u) = "-" THEN -1 ELSE 1
      b == IF u # <<>> /\ Head(u) \in {"+", "-"} THEN Tail(u) ELSE u
      ei == IndexFrom(b, "e", 1)
      mant == IF ei = 0 THEN b ELSE SubSeq(b, 1, ei - 1)
      ex == IF ei = 0 THEN [ok |-> TRUE, v |-> 0] ELSE ParseExp(SubSeq(b, ei + 1, Len(b)))
      di == IndexFrom(mant, ".", 1)
      ip == IF di = 0 THEN mant ELSE SubSeq(mant, 1, di - 1)
      fp == IF di = 0 THEN <<>> ELSE SubSeq(mant, di + 1, Len(mant))
  IN IF b = <<"n", "a", "n">> THEN NaN
     ELSE IF b \in {<<"i", "n", "f">>, <<"i", "n", "f", "i", "n", "i", "t", "y">>} THEN Inf(s)
     ELSE IF ~ex.ok \/ ~AllDigits(ip) \/ ~AllDigits(fp) \/ Len(ip) + Len(fp) = 0 THEN Raised
     ELSE DigitsValue(s, ip \o fp, ex.v - Len(fp))

\* the decimal text of a natural number (for writing input files)
RECURSIVE Dec(_)
Dec(n) ==
  LET c == <<"0", "1", "2", "3", "4", "5", "6", "7", "8", "9">>[(n % 10) + 1]
  IN IF n < 10 THEN <<c>> ELSE Dec(n \div 10) \o <<c>>


\* ------------------------------------------------------------- comparisons

Abs(a) == IF IsFin(a) \/ IsInf(a) THEN [a EXCEPT !.s = 1] ELSE a

\* a < b for two values that are finite or infinite (false with a nan)
Lt(a, b) ==
  LET c == Sub(a, b)
  IN /\ ~IsNaN(a) /\ ~IsNaN(b)
     /\ IF IsNaN(c) THEN FALSE ELSE c.s = -1 /\ ~IsZero(c)

One == FromInt(1)

\* --------------------------------------------------- inverse trigonometry

\* math.degrees(math.asin(v)): ValueError (math domain error) when |v| > 1,
\* nan for nan; else the angle, linear between the entries of SinTable
AsinDeg(v) ==
  IF IsRaised(v) THEN Raised
  ELSE IF IsNaN(v) THEN NaN
  ELSE IF Lt(One, Abs(v)) THEN Raised
  ELSE LET a == Abs(v)
           s30 == SinTable(30)
           s60 == SinTable(60)
           lo == IF Lt(a, s30) THEN 0 ELSE IF Lt(a, s60) THEN 30 ELSE 60
           deg == Add(FromInt(lo),
                      Div(Mul(FromInt(30), Sub(a, SinTable(lo))),
                          Sub(SinTable(lo + 30), SinTable(lo))))
       IN IF v.s = -1 THEN Neg(deg) ELSE deg

\* tan(30 degrees), to Prec digits
Tan30 == Norm(1, 5774, -4)

\* the angle in 0..45 degrees whose tangent is t, 0 <= t <= 1, linear
\* between tan 0, tan 30 and tan 45
AtanUnit(t) ==
  IF Lt(t, Tan30) THEN Div(Mul(FromInt(30), t), Tan30)
  ELSE Add(FromInt(30), Div(Mul(FromInt(15), Sub(t, Tan30)), Sub(One, Tan30)))

\* math.degrees(math.atan2(y, x)): never raises, nan when either is nan
Atan2Deg(y, x) ==
  IF IsRaised(y) \/ IsRaised(x) THEN Raised
  ELSE IF IsNaN(y) \/ IsNaN(x) THEN NaN
  ELSE LET ay == Abs(y)
           ax == Abs(x)
           th == IF IsInf(y) THEN (IF IsInf(x) THEN FromInt(45) ELSE FromInt(90))
                 ELSE IF IsInf(x) \/ IsZero(y) THEN Zero
                 ELSE IF Lt(ax, ay) THEN Sub(FromInt(90), AtanUnit(Div(ax, ay)))
                 ELSE AtanUnit(Div(ay, ax))
           q == IF x.s = -1 /\ ~IsZero(x) THEN Sub(FromInt(180), th) ELSE th
       IN IF y.s = -1 THEN Neg(q) ELSE q

\* ----------------------------------------------------------------- numpy

\* numpy arrays of three floats
VSub(u, v) == <<Sub(u[1], v[1]), Sub(u[2], v[2]), Sub(u[3], v[3])>>
VAdd(u, v) == <<Add(u[1], v[1]), Add(u[2], v[2]), Add(u[3], v[3])>>
VScale(c, v) == <<Mul(c, v[1]), Mul(c, v[2]), Mul(c, v[3])>>
VDiv(v, c) == <<Div(v[1], c), Div(v[2], c), Div(v[3], c)>>

\* numpy.dot
Dot(u, v) == Add(Add(Mul(u[1], v[1]), Mul(u[2], v[2])), Mul(u[3], v[3]))

\* numpy.cross
Cross(u, v) ==
  << Sub(Mul(u[2], v[3]), Mul(u[3], v[2])),
     Sub(Mul(u[3], v[1]), Mul(u[1], v[3])),
     Sub(Mul(u[1], v[2]), Mul(u[2], v[1])) >>

\* numpy.linalg.norm: the square root of a sum of squares, never raises
VNorm(v) == MathSqrt(Dot(v, v))

VAllFin(v) == IsFin(v[1]) /\ IsFin(v[2]) /\ IsFin(v[3])

\* ---------------------------------------------------------- trilateration

earthR == 6371

\* Field with a missing column read as nan
FieldLenient(content, i) ==
  IF Len(content) < i + 1 THEN NaN ELSE ParseFloat(content[i + 1])

\* content[i] as a float: IndexError without that column, ValueError when
\* the text is no float literal
Field(content, i) ==
  IF Len(content) < i + 1 THEN Raised ELSE ParseFloat(content[i + 1])

\* Content without the strip()
ContentUnstripped(line) == Split(line, ",")

\* line 37: the fields of a line
Content(line) == Split(Strip(line), ",")

\* lines 40-48: the distances in kilometres and the reference angles
Row(content) ==
  [ DistA |-> Div(Field(content, 1), FromInt(1000)),
    DistB |-> Div(Field(content, 2), FromInt(1000)),
    DistC |-> Div(Field(content, 3), FromInt(1000)),
    LatA |-> Field(content, 5), LonA |-> Field(content, 4),
    LatB |-> Field(content, 7), LonB |-> Field(content, 6),
    LatC |-> Field(content, 9), LonC |-> Field(content, 8) ]

\* lines 57-61: geodetic degrees to ECEF on the sphere of radius earthR
Ecef(lat, lon) ==
  << Mul(FromInt(earthR), Mul(CosDeg(lat), CosDeg(lon))),
     Mul(FromInt(earthR), Mul(CosDeg(lat), SinDeg(lon))),
     Mul(FromInt(earthR), SinDeg(lat)) >>

\* lines 57-77
Points(r) ==
  [ P1 |-> Ecef(r.LatA, r.LonA), P2 |-> Ecef(r.LatB, r.LonB), P3 |-> Ecef(r.LatC, r.LonC) ]

\* lines 83-88: the frame with P1 at the origin, P2 on the x axis and P3 in
\* the xy plane
Basis(p) ==
  LET ex == VDiv(VSub(p.P2, p.P1), VNorm(VSub(p.P2, p.P1)))
      i == Dot(ex, VSub(p.P3, p.P1))
      v == VSub(VSub(p.P3, p.P1), VScale(i, ex))
      ey == VDiv(v, VNorm(v))
  IN [ ex |-> ex, i |-> i, ey |-> ey, ez |-> Cross(ex, ey),
       d |-> VNorm(VSub(p.P2, p.P1)), j |-> Dot(ey, VSub(p.P3, p.P1)) ]

\* line 92
SolveX(r, b) ==
  Div(Add(Sub(MathPow2(r.DistA), MathPow2(r.DistB)), MathPow2(b.d)),
      Mul(FromInt(2), b.d))

\* SolveY without the (i/j)*x term
SolveYNoShear(r, b, x) ==
  Div(Add(Add(Sub(MathPow2(r.DistA), MathPow2(r.DistC)), MathPow2(b.i)),
          MathPow2(b.j)),
      Mul(FromInt(2), b.j))

\* lines 93-94
SolveY(r, b, x) ==
  Sub(Div(Add(Add(Sub(MathPow2(r.DistA), MathPow2(r.DistC)), MathPow2(b.i)),
              MathPow2(b.j)),
          Mul(FromInt(2), b.j)),
      Mul(Div(b.i, b.j), x))

\* the argument of the square root in line 98
ZSquared(r, x, y) == Sub(Sub(MathPow2(r.DistA), MathPow2(x)), MathPow2(y))

\* lines 97-100: the bare except turns every exception into nan
Height(r, x, y) ==
  LET v == MathSqrt(ZSquared(r, x, y)) IN IF IsRaised(v) THEN NaN ELSE v

\* the first two sums of line 103: the part of triPt in the plane of the
\* references
InPlane(p, b, x, y) == VAdd(VAdd(p.P1, VScale(x, b.ex)), VScale(y, b.ey))

\* line 103
TriPt(p, b, x, y, z) == VAdd(InPlane(p, b, x, y), VScale(z, b.ez))

\* line 107
Lat(t) == AsinDeg(Div(t[3], FromInt(earthR)))

\* line 108
Lon(t) == Atan2Deg(t[2], t[1])


\* ------------------------------------------------------------ the writer

\* csv.writer's default quoting: a field that holds the delimiter, the
\* quote character or a line break is put in quotes, its quotes doubled
NeedsQuotes(t) == \E n \in 1..Len(t) : t[n] \in {"\t", "\"", "\r", "\n"}

RECURSIVE DoubleQuotes(_)
DoubleQuotes(t) ==
  IF t = <<>> THEN <<>>
  ELSE (IF Head(t) = "\"" THEN <<"\"", "\"">> ELSE <<Head(t)>>) \o DoubleQuotes(Tail(t))

QuoteMinimal(t) == IF NeedsQuotes(t) THEN <<"\"">> \o DoubleQuotes(t) \o <<"\"">> ELSE t

\* a field given to the writer: a string, written in csv quoting, or a float
StrField(t) == [str |-> QuoteMinimal(t), num |-> Unset]
NumField(v) == [str |-> <<>>, num |-> v]

\* line 33
Header ==
  [ name |-> StrField(<<"n", "a", "m", "e">>), long |-> StrField(<<"l", "o", "n", "g">>),
    lat |-> StrField(<<"l", "a", "t">>) ]

\* lines 111-112: the row as written
OutLine(content, lon, lat) ==
  [name |-> StrField(content[1]), long |-> NumField(lon), lat |-> NumField(lat)]

\* Written with the new row put first
WrittenFirst(rows, r) == <<r>> \o rows

\* Written with the file truncated before every row
WrittenAlone(rows, r) == <<r>>

\* lines 110-112: where the row goes in the output
Written(rows, r) == Append(rows, r)

\* ------------------------------------------------------------ input files

MaxRows == 2

Comma == <<",">>
Newline == <<"\n">>

RECURSIVE Join(_)
\* fields joined by commas
Join(fs) == IF Len(fs) = 1 THEN fs[1] ELSE fs[1] \o Comma \o Join(Tail(fs))

Minus(t) == <<"-">> \o t

\* lines an input file may hold
GoodLine ==
  Join(<< <<"s">>, Dec(3298000), Dec(9010000), Dec(12308000),
          Dec(0), Dec(0), Dec(90), Dec(0), Dec(180), Dec(0) >>) \o Newline
TooFarLine ==
  Join(<< <<"t">>, Dec(10000000), Dec(10000000), Dec(10000000),
          Dec(0), Dec(0), Dec(90), Dec(0), Dec(0), Dec(90) >>) \o Newline
TooNearLine ==
  Join(<< <<" ", "u", " ", "v">>, Dec(10000), Dec(10000), Dec(10000),
          Dec(0), Dec(0), Dec(90), Dec(0), Dec(0), Dec(90) >>) \o Newline
ArcIdentityLine ==
  Join(<< <<"i", "d">>, Dec(0), Dec(6671700), Dec(6671700),
          Dec(0), Dec(0), Dec(60), Dec(0), Dec(0), Dec(60) >>) \o Newline
SameABLine ==
  Join(<< <<"c">>, Dec(9010000), Dec(2000000), Dec(9010000),
          Dec(30), Dec(0), Dec(30), Dec(0), Dec(0), Dec(90) >>) \o Newline
SameACLine ==
  Join(<< <<"k">>, Dec(9010000), Dec(9010000), Dec(1000000),
          Dec(0), Dec(0), Dec(90), Dec(0), Dec(0), Dec(0) >>) \o Newline
ShortLine == Join(<< <<"p">>, Dec(1), Dec(2) >>) \o Newline
TextLine ==
  Join(<< <<"b">>, Dec(1000), <<"x">>, Dec(1000),
          Dec(0), Dec(0), Dec(90), Dec(0), Dec(0), Dec(90) >>) \o Newline
LongLine ==
  Join(<< <<"a", "\"", "b">>, Dec(5000000), Dec(7000000), Dec(9000000),
          Dec(0), Dec(0), Dec(90), Dec(0), Dec(0), Minus(Dec(90)), <<"x">> >>) \o Newline
HugeLine ==
  Join(<< <<"o">>, <<"1", "e", "2", "0", "0">>, Dec(1), Dec(1),
          Dec(0), Dec(0), Dec(0), Dec(0), Dec(0), Dec(90) >>) \o Newline
InfAngleLine ==
  Join(<< <<"f">>, Dec(1), Dec(1), Dec(1),
          Dec(0), Dec(0), <<"i", "n", "f">>, Dec(0), Dec(0), Dec(90) >>) \o Newline
NaNLine ==
  Join(<< <<"n">>, <<"n", "a", "n">>, <<" ", "1", ".", "5", "e", "3">>, Dec(1),
          Dec(0), Dec(0), Dec(90), Dec(0), Dec(0), Dec(90) >>)

Lines ==
  { GoodLine, TooFarLine, TooNearLine, ArcIdentityLine, SameABLine, SameACLine,
    ShortLine, TextLine, LongLine, HugeLine, InfAngleLine, NaNLine }

RECURSIVE Files(_)
\* the files of at most n lines
Files(n) ==
  IF n = 0 THEN {<<>>}
  ELSE LET shorter == Files(n - 1)
       IN shorter \cup {Append(f, l) : f \in {g \in shorter : Len(g) = n - 1}, l \in Lines}

\* ---------------------------------------------------------------- main()

VARIABLES
  input,     \* the lines of args.input
  readable,  \* whether args.input can be opened
  pc,        \* where main() is
  next,      \* the number of the next line the loop reads
  content,   \* line 37
  row,       \* lines 40-48: DistA .. LonC
  pts,       \* lines 75-77: P1, P2, P3
  basis,     \* lines 83-88: ex, i, ey, ez, d, j
  sol,       \* lines 92-100: x, y, z
  triPt,     \* line 103
  geo,       \* lines 107-108: lat, lon
  out,       \* the rows written to args.output
  closed,    \* whether line 114 closed the output file
  exc        \* the line whose exception ended the run, 0 when none

vars == <<input, readable, pc, next, content, row, pts, basis, sol, triPt, geo, out, closed, exc>>

Init ==
  /\ input \in Files(MaxRows)
  /\ readable \in BOOLEAN
  /\ pc = "open"
  /\ next = 1
  /\ content = <<>>
  /\ row = [DistA |-> Unset, DistB |-> Unset, DistC |-> Unset, LatA |-> Unset,
            LonA |-> Unset, LatB |-> Unset, LonB |-> Unset, LatC |-> Unset, LonC |-> Unset]
  /\ pts = [P1 |-> UnsetV, P2 |-> UnsetV, P3 |-> UnsetV]
  /\ basis = [ex |-> UnsetV, i |-> Unset, ey |-> UnsetV, ez |-> UnsetV, d |-> Unset, j |-> Unset]
  /\ sol = [x |-> Unset, y |-> Unset, z |-> Unset]
  /\ triPt = UnsetV
  /\ geo = [lat |-> Unset, lon |-> Unset]
  /\ out = <<>>
  /\ closed = FALSE
  /\ exc = 0

\* the line of the first statement of lines 40-48 that raises, 0 when none
ParseRaises(c) ==
  IF IsRaised(Field(c, 1)) THEN 40 ELSE IF IsRaised(Field(c, 2)) THEN 41
  ELSE IF IsRaised(Field(c, 3)) THEN 42 ELSE IF IsRaised(Field(c, 5)) THEN 43
  ELSE IF IsRaised(Field(c, 4)) THEN 44 ELSE IF IsRaised(Field(c, 7)) THEN 45
  ELSE IF IsRaised(Field(c, 6)) THEN 46 ELSE IF IsRaised(Field(c, 9)) THEN 47
  ELSE IF IsRaised(Field(c, 8)) THEN 48 ELSE 0

\* the line of the first statement of lines 57-73 that raises, 0 when none
EcefRaises(r) ==
  IF IsInf(r.LatA) \/ IsInf(r.LonA) THEN 57
  ELSE IF IsInf(r.LatB) \/ IsInf(r.LonB) THEN 63
  ELSE IF IsInf(r.LatC) \/ IsInf(r.LonC) THEN 69 ELSE 0

\* lines 30-33: open both files and write the header; an input that cannot
\* be opened raises at line 30, before the output file is touched
Open ==
  /\ pc = "open"
  /\ IF readable
     THEN /\ out' = Written(out, Header)
          /\ pc' = "loop"
          /\ exc' = exc
     ELSE /\ pc' = "failed"
          /\ exc' = 30
          /\ out' = out
  /\ UNCHANGED <<input, readable, next, content, row, pts, basis, sol, triPt, geo, closed>>

\* lines 36-48: the next line, split and parsed; the loop ends after the last
ReadLine ==
  /\ pc = "loop"
  /\ IF next > Len(input)
     THEN /\ pc' = "close"
          /\ UNCHANGED <<next, content, row, exc>>
     ELSE LET c == Content(input[next])
          IN /\ next' = next + 1
             /\ content' = c
             /\ IF ParseRaises(c) # 0
                THEN /\ pc' = "failed"
                     /\ exc' = ParseRaises(c)
                     /\ row' = row
                ELSE /\ pc' = "ecef"
                     /\ row' = Row(c)
                     /\ exc' = exc
  /\ UNCHANGED <<input, readable, pts, basis, sol, triPt, geo, out, closed>>

\* lines 57-77
ToEcef ==
  /\ pc = "ecef"
  /\ IF EcefRaises(row) # 0
     THEN /\ pc' = "failed"
          /\ exc' = EcefRaises(row)
          /\ pts' = pts
     ELSE /\ pc' = "basis"
          /\ pts' = Points(row)
          /\ exc' = exc
  /\ UNCHANGED <<input, readable, next, content, row, basis, sol, triPt, geo, out, closed>>

\* lines 83-88
MakeBasis ==
  /\ pc = "basis"
  /\ basis' = Basis(pts)
  /\ pc' = "solve"
  /\ UNCHANGED <<input, readable, next, content, row, pts, sol, triPt, geo, out, closed, exc>>

\* lines 92-94: math.pow raises OverflowError for a square out of range
Solve ==
  /\ pc = "solve"
  /\ LET x == SolveX(row, basis)
         y == SolveY(row, basis, x)
     IN IF IsRaised(x) \/ IsRaised(y)
        THEN /\ pc' = "failed"
             /\ exc' = IF IsRaised(x) THEN 92 ELSE 93
             /\ sol' = sol
        ELSE /\ pc' = "height"
             /\ sol' = [sol EXCEPT !.x = x, !.y = y]
             /\ exc' = exc
  /\ UNCHANGED <<input, readable, next, content, row, pts, basis, triPt, geo, out, closed>>

\* lines 97-100
TakeRoot ==
  /\ pc = "height"
  /\ sol' = [sol EXCEPT !.z = Height(row, sol.x, sol.y)]
  /\ pc' = "recover"
  /\ UNCHANGED <<input, readable, next, content, row, pts, basis, triPt, geo, out, closed, exc>>

\* line 103
Recover ==
  /\ pc = "recover"
  /\ triPt' = TriPt(pts, basis, sol.x, sol.y, sol.z)
  /\ pc' = "geodetic"
  /\ UNCHANGED <<input, readable, next, content, row, pts, basis, sol, geo, out, closed, exc>>

\* lines 107-108: math.asin raises ValueError outside [-1, 1]
Geodetic ==
  /\ pc = "geodetic"
  /\ IF IsRaised(Lat(triPt))
     THEN /\ pc' = "failed"
          /\ exc' = 107
          /\ geo' = geo
     ELSE /\ pc' = "write"
          /\ geo' = [lat |-> Lat(triPt), lon |-> Lon(triPt)]
          /\ exc' = exc
  /\ UNCHANGED <<input, readable, next, content, row, pts, basis, sol, triPt, out, closed>>

\* lines 111-112
WriteRow ==
  /\ pc = "write"
  /\ out' = Written(out, OutLine(content, geo.lon, geo.lat))
  /\ pc' = "loop"
  /\ UNCHANGED <<input, readable, next, content, row, pts, basis, sol, triPt, geo, closed, exc>>

\* line 114
Close ==
  /\ pc = "close"
  /\ closed' = TRUE
  /\ pc' = "done"
  /\ UNCHANGED <<input, readable, next, content, row, pts, basis, sol, triPt, geo, out, exc>>

Next ==
  \/ Open \/ ReadLine \/ ToEcef \/ MakeBasis \/ Solve \/ TakeRoot
  \/ Recover \/ Geodetic \/ WriteRow \/ Close

Spec == Init /\ [][Next]_vars

\* ------------------------------------------------------------ properties

\* the references of a row with their distances, in the order A, B, C
Refs(r) ==
  << [dist |-> r.DistA, lat |-> r.LatA, lon |-> r.LonA],
     [dist |-> r.DistB, lat |-> r.LatB, lon |-> r.LonB],
     [dist |-> r.DistC, lat |-> r.LatC, lon |-> r.LonC] >>

\* the row with reference q[1] labelled A, q[2] labelled B and q[3] labelled C
Relabel(r, q) ==
  LET f == Refs(r)
  IN [ DistA |-> f[q[1]].dist, LatA |-> f[q[1]].lat, LonA |-> f[q[1]].lon,
       DistB |-> f[q[2]].dist, LatB |-> f[q[2]].lat, LonB |-> f[q[2]].lon,
       DistC |-> f[q[3]].dist, LatC |-> f[q[3]].lat, LonC |-> f[q[3]].lon ]

Permutations3 == {<<1, 2, 3>>, <<1, 3, 2>>, <<2, 1, 3>>, <<2, 3, 1>>, <<3, 1, 2>>, <<3, 2, 1>>}

\* the in-plane part of the point recovered from a row
InPlaneOf(r) ==
  LET p == Points(r)
      b == Basis(p)
      x == SolveX(r, b)
      y == SolveY(r, b, x)
  IN InPlane(p, b, x, y)


\* |a - b| <= tol, both finite
Near(a, b, tol) == IsFin(a) /\ IsFin(b) /\ ~Lt(tol, Abs(Sub(a, b)))

VNear(u, v, tol) == \A n \in 1..3 : Near(u[n], v[n], tol)

\* the row the loop is working on, or has just finished
Current == input[next - 1]

\* the states in which the named variable holds the current row's value
HasSol == next > 1 /\ (pc \in {"height", "recover", "geodetic", "write"} \/ (pc = "failed" /\ exc = 107))
HasRoot == next > 1 /\ (pc \in {"recover", "geodetic", "write"} \/ (pc = "failed" /\ exc = 107))
HasTriPt == next > 1 /\ (pc \in {"geodetic", "write"} \/ (pc = "failed" /\ exc = 107))

\* the output row main() computes from a line that raises nothing
RowFor(line) ==
  LET c == Content(line)
      r == Row(c)
      p == Points(r)
      b == Basis(p)
      x == SolveX(r, b)
      y == SolveY(r, b, x)
      t == TriPt(p, b, x, y, Height(r, x, y))
  IN OutLine(c, Lon(t), Lat(t))

\* a line of 10 columns whose columns 1-9 are float literals of finite
\* value, the distances with a square in the range of a double
WellFormed(line) ==
  LET c == Content(line)
  IN /\ Len(c) = 10
     /\ \A n \in 1..9 : IsFin(ParseFloat(c[n + 1]))
     /\ \A n \in 1..3 : ~IsRaised(MathPow2(ParseFloat(c[n + 1])))

\* C1: for an input whose rows all parse, the run ends with the header and
\* one data row per input row, whatever the values (as claimed)
C1_RowCount ==
  (readable /\ pc \in {"done", "failed"} /\ \A n \in 1..Len(input) : WellFormed(input[n]))
    => Len(out) = Len(input) + 1

\* the argument of math.asin in line 107 is a number outside [-1, 1]
AsinOutside(t) == Lt(One, Abs(Div(t[3], FromInt(earthR))))

\* C2: when triPt[2] / earthR is a number outside [-1, 1] the latitude is nan
\* and the row is written; the run does not fail (as claimed)
C2_AsinOutsideGivesNaN ==
  (HasTriPt /\ AsinOutside(triPt)) => (pc # "failed" /\ (pc = "write" => IsNaN(geo.lat)))

\* the rounding of one operation of the float model, relative to b
Rounded(a, b) == Near(a, b, Mul(Abs(b), Norm(1, 2, -3)))

\* C3: z is the non-negative root of z2 when z2 >= 0; when z2 < 0, z is nan
\* and so are the longitude and latitude written; z is never negative and no
\* error is raised in either case (as claimed)
C3_HeightTerm ==
  HasRoot =>
    LET z2 == ZSquared(row, sol.x, sol.y)
    IN /\ (IsFin(z2) /\ z2.s = 1) => (IsFin(sol.z) /\ sol.z.s = 1 /\ Rounded(Mul(sol.z, sol.z), z2))
       /\ (IsFin(z2) /\ z2.s = -1) =>
            (IsNaN(sol.z) /\ (pc = "write" => IsNaN(geo.lon) /\ IsNaN(geo.lat)))
       /\ ~(IsFin(sol.z) /\ sol.z.s = -1)
       /\ pc # "failed"

\* C4: the header is written first, before any line is read, then one row
\* per line in the order of the input; the data rows written are at every
\* moment the rows of a prefix of the input, none twice, none out of order
C4_HeaderThenRowsInOrder ==
  /\ next > 1 => out # <<>>
  /\ out # <<>> => out[1] = Header
  /\ \A n \in 2..Len(out) : n - 1 <= Len(input) /\ out[n] = RowFor(input[n - 1])
  /\ pc \in {"ecef", "basis", "solve", "height", "recover", "geodetic", "write"}
       => Len(out) = next - 1
  /\ pc \in {"loop", "close", "done"} => Len(out) = next

\* C4: a run that ends with the header and two different data rows
C4_Witness == pc = "done" /\ Len(out) = 3 /\ out[2] # out[3]

\* text that float() rejects
NotFloat(t) == IsRaised(ParseFloat(t))

ParseFailed == pc = "failed" /\ exc \in 40..48

\* C5 as claimed: a row whose column count is not exactly 10, or with text
\* that is no number in one of columns 1-9, fails the run at that row
C5_MalformedRowFails ==
  next > 1 =>
    LET c == Content(Current)
    IN (Len(c) # 10 \/ \E n \in 1..9 : n < Len(c) /\ NotFloat(c[n + 1]))
         => (ParseFailed /\ Len(out) = next - 1)

\* C5 amended: a row with fewer than 10 columns, or with text that is no
\* float literal in one of columns 1-9, fails the run at that row with
\* nothing written for it; a row of 10 or more columns whose columns 1-9 are
\* float literals is accepted, the columns after the tenth ignored
C5_ShortOrNonNumericRowFails ==
  next > 1 =>
    LET c == Content(Current)
        bad == Len(c) < 10 \/ \E n \in 1..9 : n < Len(c) /\ NotFloat(c[n + 1])
    IN /\ bad => (ParseFailed /\ Len(out) = next - 1 /\ ~ENABLED Next)
       /\ ~bad => ~ParseFailed

\* C5: the second line is too short and fails the run after the first was
\* written
C5_Witness == ParseFailed /\ next = 3 /\ Len(out) = 2 /\ Len(content) < 10

\* column 0 of a line as it stands in the file
RawColumn0(line) == Split(line, ",")[1]

RECURSIVE SingleQuotes(_)
SingleQuotes(t) ==
  IF t = <<>> THEN <<>>
  ELSE IF Len(t) >= 2 /\ t[1] = "\"" /\ t[2] = "\"" THEN <<"\"">> \o SingleQuotes(SubSeq(t, 3, Len(t)))
  ELSE <<Head(t)>> \o SingleQuotes(Tail(t))

\* the field a reader of the output file gets back from a written field
Unquote(t) ==
  IF Len(t) >= 2 /\ t[1] = "\"" /\ t[Len(t)] = "\""
  THEN SingleQuotes(SubSeq(t, 2, Len(t) - 1)) ELSE t

\* C6 as claimed: the name field written equals column 0 of the input row,
\* character for character, leading whitespace included
C6_NameUnchanged ==
  \A n \in 2..Len(out) : Unquote(out[n].name.str) = RawColumn0(input[n - 1])

\* C6 amended: the name written is column 0 of the line without the line's
\* leading whitespace, in quotes (inner quotes doubled) when it holds a tab,
\* a quote or a line break; it is column 0 itself when the line starts with
\* no whitespace and the name needs no quotes; NaN coordinates change nothing
C6_NameIsStrippedColumn0 ==
  \A n \in 2..Len(out) :
    LET raw == RawColumn0(input[n - 1])
    IN /\ out[n].name.str = QuoteMinimal(LStrip(raw))
       /\ (LStrip(raw) = raw /\ ~NeedsQuotes(raw)) => out[n].name.str = raw

\* C6: a line that starts with whitespace, written with nan coordinates
C6_Witness ==
  /\ Len(out) >= 2
  /\ Head(input[1]) \in Whitespace
  /\ out[2].name.str = <<"u", " ", "v">>
  /\ IsNaN(out[2].lat.num)

\* pi, to Prec digits
Pi == Norm(1, 3142, -3)

\* the great-circle distance in km between two points of the sphere, from
\* their chord: earthR * 2 * asin(chord / (2 * earthR))
GreatCircle(p, q) ==
  LET half == AsinDeg(Div(VNorm(VSub(p, q)), FromInt(2 * earthR)))
  IN Mul(FromInt(earthR), Div(Mul(Mul(FromInt(2), half), Pi), FromInt(180)))

\* the unknown point is reference A: distance 0 to A and the great-circle
\* distances from A to B and to C
IdentityRow(r, p) ==
  /\ IsZero(r.DistA)
  /\ Near(r.DistB, GreatCircle(p.P1, p.P2), FromInt(5))
  /\ Near(r.DistC, GreatCircle(p.P1, p.P3), FromInt(5))

\* C7: an identity row is written with reference A's coordinates, not nan
\* (as claimed)
C7_IdentityTriangle ==
  (pc = "write" /\ IdentityRow(row, pts))
    => /\ Near(geo.lon, row.LonA, One)
       /\ Near(geo.lat, row.LatA, One)

\* finite distances and three finite, distinct reference points
NonDegenerate(r, p) ==
  /\ IsFin(r.DistA) /\ IsFin(r.DistB) /\ IsFin(r.DistC)
  /\ VAllFin(p.P1) /\ VAllFin(p.P2) /\ VAllFin(p.P3)
  /\ p.P1 # p.P2 /\ p.P1 # p.P3 /\ p.P2 # p.P3

\* what the roundings of the float model leave between two in-plane points, km
InPlaneTol == FromInt(20)

\* C8: whichever way the references of a non-degenerate row are labelled
\* A, B, C, the in-plane part P1 + x*ex + y*ey of the recovered point is the
\* same, to the rounding of the float model
C8_RelabelKeepsInPlane ==
  (HasSol /\ NonDegenerate(row, pts)) =>
    \A q \in Permutations3 :
      VNear(InPlane(pts, basis, sol.x, sol.y), InPlaneOf(Relabel(row, q)), InPlaneTol)

\* C8: a non-degenerate row one of whose relabelings turns ez around
C8_Witness ==
  /\ HasSol /\ NonDegenerate(row, pts)
  /\ \E q \in Permutations3 :
       LET b == Basis(Points(Relabel(row, q)))
       IN b.ex # basis.ex /\ Dot(b.ez, basis.ez).s = -1

\* the three references at latitude 0 and at three different longitudes
OnEquator(r) ==
  /\ IsZero(r.LatA) /\ IsZero(r.LatB) /\ IsZero(r.LatC)
  /\ r.LonA # r.LonB /\ r.LonA # r.LonC /\ r.LonB # r.LonC

Coincident(r) ==
  \/ r.LatB = r.LatA /\ r.LonB = r.LonA
  \/ r.LatC = r.LatA /\ r.LonC = r.LonA

C10_FailureKeepsWrittenRows ==
  (pc = "failed" /\ exc # 30) =>
    /\ Len(out) = next - 1
    /\ out[1] = Header
    /\ \A n \in 2..Len(out) : out[n] = RowFor(input[n - 1])
    /\ ~closed
    /\ ~ENABLED Next

\* C10: the second line fails at math.asin after the first was written
C10_Witness == pc = "failed" /\ exc = 107 /\ next = 3 /\ Len(out) = 2 /\ ~closed


=============================================================================
